---- MODULE Spec2Model ----
(***************************************************************************)
(* A model of git-analyze: the hosting-API handlers (github/handler.py),   *)
(* the commit analyzer (github/ai_analyzer.py) and the window that drives  *)
(* them (github/gui.py).                                                   *)
(*                                                                         *)
(* Conventions.  A Python string is a sequence of one-character strings;   *)
(* a long literal the code never takes apart is a one-element sequence     *)
(* holding the literal.  A Python value that may be None is a record:      *)
(* PyNone, or Str(s).  Each call of a handler or of the analyzer is one    *)
(* action; what the call was given, what it sent and how it ended are kept *)
(* in the state so that the properties can speak about them.               *)
(***************************************************************************)
EXTENDS Integers, Sequences, FiniteSets, TLC

VARIABLES
    accessToken,  \* handler.py: ACCESS_TOKEN, read from the process environment at import
    repo,         \* the GithubRepo object the client holds, or PyNone
    hin,          \* what the last handler call was given (arguments, the API's answer)
    hreqs,        \* the requests the last handler call sent, in order
    hout,         \* how the last handler call ended
    hlog,         \* what the last handler call wrote with ic()
    ain,          \* what the last analyzer call was given (the batch, the service's answers)
    areqs,        \* the prompts the last analyzer call sent to the service, in order
    aout,         \* how the last analyzer call ended
    alog,         \* what the last analyzer call wrote with ic() and print()
    atally,       \* over all analyzer calls so far: the requests sent less the calls
                  \* made, and whether the last call repeated the batch of the one before
    binding,      \* gui.py: which classes the import at the top of the file bound
    win,          \* the GitAnalyzerGUI window: its attributes and its widgets
    stack,        \* the handlers waiting in QApplication.processEvents(), innermost last
    ev,           \* the last thing the window did
    gcalls        \* what the window last asked of the classes behind it: the lookups of
                  \* the last connect, the service calls of the last analysis and its
                  \* batch, the commits the last load got and the repository it got them for

hvars == <<accessToken, repo, hin, hreqs, hout, hlog>>

avars == <<ain, areqs, aout, alog, atally>>

gvars == <<binding, win, stack, ev, gcalls>>

vars == <<accessToken, repo, hin, hreqs, hout, hlog, ain, areqs, aout, alog, atally,
          binding, win, stack, ev, gcalls>>

-----------------------------------------------------------------------------
(* Python values *)

PyNone == [t |-> "None"]

Str(s) == [t |-> "str", v |-> s]

-----------------------------------------------------------------------------
(* Bounds of the model *)

\* the largest number of repositories the remote account holds
MaxRepos == 31

\* the largest page size a client writes into GithubRepo.params
MaxPerPage == 31

\* the largest page number a client writes into GithubRepo.params
MaxPage == 2

\* the largest batch of commit messages handed to the analyzer
MaxBatch == 2

\* the deepest nesting of handlers waiting in processEvents()
MaxDepth == 2

-----------------------------------------------------------------------------
(* Constants of the program *)

\* handler.py: "per_page" : 30, the page size every GithubRepo starts with
DefaultPerPage == 30

-----------------------------------------------------------------------------
(* The hosting API, as the handlers see it *)

Credentials == {<<"a">>, <<"b">>}

\* the credentials the hosting API accepts; it rejects every other one
ValidCredentials == {<<"a">>}

ApiAccepts(cred) == cred \in ValidCredentials

\* the account a valid credential belongs to
LoginOf(cred) == <<"o", "c", "t">>

Logins == {<<"o", "c", "t">>}

\* GET /user: the keys a success body may carry ("id" stands for the many keys
\* the handler does not keep)
ProfileKeys == {"login", "name", "id"}

ProfileValue(cred, key) ==
    CASE key = "login" -> Str(LoginOf(cred))
      [] key = "name" -> Str(<<"N">>)
      [] OTHER -> Str(<<"7">>)

ProfileBodies(cred) ==
    { [k \in ks |-> ProfileValue(cred, k)] : ks \in SUBSET ProfileKeys }

NoBody == [k \in {} |-> PyNone]

\* the answers GET /user can give to a request bearing cred
ProfileResponses(cred) ==
    (IF ApiAccepts(cred)
       THEN { [kind |-> "http", status |-> 200, body |-> b] : b \in ProfileBodies(cred) }
       ELSE { [kind |-> "http", status |-> 401, body |-> NoBody] })
    \cup { [kind |-> "http", status |-> 500, body |-> NoBody],
           [kind |-> "neterr", status |-> 0, body |-> NoBody] }

\* GET /user/repos: the account's repositories, as raw records.  shape says how
\* the records look: "plain" (lower-case names), "upper" (the first name has
\* capitals), "noname" (the first record has no name key), "dup" (the first
\* two records carry the same name).
RepoShapes == {"plain", "upper", "noname", "dup"}

RawRepo(shape, i) ==
    [ has_name |-> ~(shape = "noname" /\ i = 1),
      name |-> [ id |-> IF shape = "dup" /\ i = 2 THEN 1 ELSE i,
                 upper |-> (shape = "upper" /\ i = 1) ] ]

RemoteRepos(n, shape) == [i \in 1..n |-> RawRepo(shape, i)]

Min(a, b) == IF a < b THEN a ELSE b

\* page p of a listing at page size per
PageOf(listing, p, per) ==
    LET lo == (p - 1) * per + 1
        hi == Min(p * per, Len(listing))
    IN  IF lo > hi THEN <<>> ELSE SubSeq(listing, lo, hi)

\* the repository counts tried: none, a few, and those around a full default page
RepoCounts == {0, 1, 2, 3} \cup ((DefaultPerPage - 1)..MaxRepos)

\* the remote side of one listing call: n repositories of a shape; the request
\* for page failPage (0: none) gets status failStatus
Remotes ==
    [ n : RepoCounts, shape : RepoShapes, failPage : {0}, failStatus : {200} ]
    \cup [ n : RepoCounts, shape : {"plain"}, failPage : 1..MaxPage,
           failStatus : {404, 500} ]

StatusAt(remote, p) == IF p = remote.failPage THEN remote.failStatus ELSE 200

-----------------------------------------------------------------------------
(* github/handler.py: GithubProfile *)

GithubProfile_init(token) ==
    [ a \in {"token", "headers", "avatar_url", "followers", "following",
             "name", "user_name", "allowed_attrs"} |->
        CASE a = "token" -> Str(token)
          [] a = "headers" -> [t |-> "dict", Authorization |-> accessToken]
          [] OTHER -> PyNone ]

allowed_attrs == {"avatar_url", "followers", "following", "name", "login", "allowed_attrs"}

\* setattr(self, key, value) for every key of the body that is allowed
GithubProfile_set_attributes(self, kwargs) ==
    LET set == DOMAIN kwargs \cap allowed_attrs
    IN  [ a \in DOMAIN self \cup set |-> IF a \in set THEN kwargs[a] ELSE self[a] ]

ProfileRequest(self) ==
    [ url |-> "GITHUB_USER_URL", auth |-> self["headers"].Authorization,
      params |-> [type |-> "all"] ]

\* _fetch_user_data: one GET; a 200 sets the attributes, anything else raises
GithubProfile_fetch_user_data(self, resp) ==
    IF resp.kind = "neterr"
      THEN [ self |-> self, kind |-> "raised", exc |-> "ClientError" ]
    ELSE IF resp.status = 200
      THEN [ self |-> GithubProfile_set_attributes(self, resp.body),
             kind |-> "returned", exc |-> "" ]
      ELSE [ self |-> self, kind |-> "raised", exc |-> "BadContentDispositionParam" ]

\* GithubProfile.create(token): ic(token); cls(token); _fetch_user_data(); return user
ProfileCreate ==
    \E token \in Credentials :
      \E resp \in ProfileResponses(accessToken) :
        LET user == GithubProfile_init(token)
            r == GithubProfile_fetch_user_data(user, resp)
        IN  /\ hlog' = { [what |-> "token", v |-> token] }
            /\ hreqs' = << ProfileRequest(user) >>
            /\ hin' = [ op |-> "profile", token |-> token, resp |-> resp ]
            /\ hout' = [ op |-> "profile", kind |-> r.kind, exc |-> r.exc,
                         value |-> IF r.kind = "returned"
                                     THEN [t |-> "GithubProfile", attrs |-> r.self]
                                     ELSE PyNone,
                         repo_list |-> <<>> ]
            /\ UNCHANGED <<accessToken, repo, avars, gvars>>

-----------------------------------------------------------------------------
(* github/handler.py: GithubRepo *)

\* the page sizes a client writes into GithubRepo.params
PerPageChoices == {2, DefaultPerPage, MaxPerPage}

GithubRepo_init(token, login) ==
    [ t |-> "GithubRepo", token |-> token, login |-> login,
      header |-> [t |-> "dict", Authorization |-> accessToken],
      params |-> [page |-> 1, per_page |-> DefaultPerPage] ]

RepoRequest(self) ==
    [ url |-> "GITHUB_USERS_REPO_URL", auth |-> self.header.Authorization,
      params |-> self.params ]

\* repo.get("name")
RepoGetName(raw) == IF raw.has_name THEN [t |-> "name", v |-> raw.name] ELSE PyNone

\* _fetch_user_repos: one GET with self.params; a 200 builds repo_list (a local,
\* shown with ic() and dropped), anything else raises; the method returns None
GithubRepo_fetch_user_repos(self, remote) ==
    LET req == RepoRequest(self)
        status == StatusAt(remote, req.params.page)
        data == PageOf(RemoteRepos(remote.n, remote.shape), req.params.page,
                       req.params.per_page)
        repo_list == [ i \in 1..Len(data) |-> [name |-> RepoGetName(data[i])] ]
    IN  IF status = 200
          THEN [ reqs |-> <<req>>, kind |-> "returned", exc |-> "", value |-> PyNone,
                 repo_list |-> repo_list,
                 log |-> { [what |-> "data", v |-> Len(data)],
                           [what |-> "repo_list", v |-> Len(repo_list)] } ]
          ELSE [ reqs |-> <<req>>, kind |-> "raised", exc |-> "BadContentDispositionParam",
                 value |-> PyNone, repo_list |-> <<>>, log |-> {} ]

HandlerDone(op, self, remote, r) ==
    /\ hreqs' = r.reqs
    /\ hlog' = r.log
    /\ hin' = [ op |-> op, token |-> self.token, login |-> self.login,
                page |-> self.params.page, per_page |-> self.params.per_page,
                remote |-> remote ]
    /\ hout' = [ op |-> op, kind |-> r.kind, exc |-> r.exc, value |-> r.value,
                 repo_list |-> r.repo_list ]

\* GithubRepo.create(token, login): cls(token, login); _fetch_user_repos(); return repo
RepoCreate ==
    \E token \in Credentials, login \in Logins, remote \in Remotes :
        LET self == GithubRepo_init(token, login)
            r == GithubRepo_fetch_user_repos(self, remote)
        IN  /\ HandlerDone("repos", self, remote, r)
            /\ UNCHANGED <<accessToken, repo, avars, gvars>>

\* GithubRepo(token, login): the plain constructor, no request
RepoNew ==
    \E token \in Credentials, login \in Logins :
        /\ repo' = GithubRepo_init(token, login)
        /\ hin' = [ op |-> "new", token |-> token, login |-> login ]
        /\ hout' = [ op |-> "new", kind |-> "returned", exc |-> "", value |-> PyNone,
                     repo_list |-> <<>> ]
        /\ hreqs' = <<>>
        /\ hlog' = {}
        /\ UNCHANGED <<accessToken, avars, gvars>>

\* params is a plain attribute of the object: the class has no other way to
\* choose a page or a page size, so a client that wants one assigns it
RepoSetParams ==
    \E page \in 1..MaxPage, per_page \in PerPageChoices :
        /\ repo # PyNone
        /\ repo' = [repo EXCEPT !.params = [page |-> page, per_page |-> per_page]]
        /\ UNCHANGED <<accessToken, hin, hreqs, hout, hlog, avars, gvars>>

\* repo._fetch_user_repos() on the object the client holds
RepoFetch ==
    \E remote \in Remotes :
        /\ repo # PyNone
        /\ HandlerDone("repos", repo, remote, GithubRepo_fetch_user_repos(repo, remote))
        /\ UNCHANGED <<accessToken, repo, avars, gvars>>

-----------------------------------------------------------------------------
(* Strings *)

Whitespace == {" ", "\n"}

RECURSIVE LStrip(_)
LStrip(s) == IF Len(s) > 0 /\ Head(s) \in Whitespace THEN LStrip(Tail(s)) ELSE s

RECURSIVE RStrip(_)
RStrip(s) ==
    IF Len(s) > 0 /\ s[Len(s)] \in Whitespace THEN RStrip(SubSeq(s, 1, Len(s) - 1)) ELSE s

\* str.strip()
Strip(s) == RStrip(LStrip(s))

SetMax(S) == CHOOSE x \in S : \A y \in S : y <= x

\* s.split(sep)[-1]: what follows the last sep, the whole of s when it has none
SplitLast(s, sep) ==
    LET at == { i \in 1..Len(s) : s[i] = sep }
    IN  IF at = {} THEN s ELSE SubSeq(s, SetMax(at) + 1, Len(s))

\* sep.join(parts)
RECURSIVE Join(_, _)
Join(parts, sep) ==
    IF Len(parts) = 0 THEN <<>>
    ELSE IF Len(parts) = 1 THEN parts[1]
    ELSE parts[1] \o sep \o Join(Tail(parts), sep)

-----------------------------------------------------------------------------
(* github/ai_analyzer.py *)

\* commit messages: a subject behind a timestamp as the window lists it
\* ("t/f"), one behind two separators with a blank before it and a line break
\* after it, and the usual subject-and-body message of git, whose body here is
\* a list item
SampleMessages ==
    { <<"t", "/", "f">>, <<"t", "/", "p", "/", " ", "f", "\n">>,
      <<"f", "\n", "-", " ", "b">> }

RECURSIVE SeqsUpTo(_, _)
SeqsUpTo(S, n) ==
    IF n = 0 THEN { <<>> }
    ELSE LET shorter == SeqsUpTo(S, n - 1)
         IN  shorter \cup { Append(q, x) : q \in { r \in shorter : Len(r) = n - 1 }, x \in S }

Batches == SeqsUpTo(SampleMessages, MaxBatch)

\* return value of the except branch
ErrorText == << "Error: Could not get analysis from AI." >>

\* what the completion service gives back for one generate_content call: a
\* response with text, a response without a text part (response.text raises),
\* or an error of the SDK carrying a status
ServiceTexts == { <<>>, <<" ", "\n">>, <<" ", "o", "k", "\n">> }

ServiceAnswers ==
    { [kind |-> "text", text |-> x, status |-> 200] : x \in ServiceTexts }
    \cup { [kind |-> "notext", text |-> <<>>, status |-> 200] }
    \cup { [kind |-> "error", text |-> <<>>, status |-> c] : c \in {400, 429, 500} }

\* the service's answers to the first call and, were there one, to the second
ServiceRuns ==
    { <<first, second>> : first \in ServiceAnswers,
                          second \in { a \in ServiceAnswers :
                                          a.status = 500 \/ a.text = <<" ", "o", "k", "\n">> } }

PromptHead == << "As an expert programmer [...] Commit Message: \"" >>

PromptTail == << "\" Your analysis:" >>

\* "\n".join(f"- {msg.split('/')[-1].strip()}" for msg in commit_messages)
formatted_commits(commit_messages) ==
    Join([ i \in 1..Len(commit_messages) |->
             <<"-", " ">> \o Strip(SplitLast(commit_messages[i], "/")) ],
         <<"\n">>)

BuildPrompt(commit_messages) ==
    PromptHead \o formatted_commits(commit_messages) \o PromptTail

\* the analyzer with a slip: a text that is empty once trimmed is taken for a
\* failure
analyze_commit_with_ai_rejecting_empty(commit_messages, run) ==
    LET prompt == BuildPrompt(commit_messages)
        answer == run[1]
    IN  IF answer.kind = "text" /\ Len(Strip(answer.text)) > 0
          THEN [ reqs |-> <<prompt>>, kind |-> "returned", exc |-> "",
                 value |-> Strip(answer.text),
                 log |-> { [what |-> "ic", v |-> answer.text] } ]
          ELSE [ reqs |-> <<prompt>>, kind |-> "returned", exc |-> "", value |-> ErrorText,
                 log |-> { [what |-> "print", v |-> <<"An error occurred">>] } ]

\* the analyzer with a slip: the report of the last batch is kept and given
\* again, without a request, when the same batch comes next
analyze_commit_with_ai_cached(commit_messages, run) ==
    LET prompt == BuildPrompt(commit_messages)
        answer == run[1]
    IN  IF ain.op = "analyze" /\ ain.batch = commit_messages
          THEN [ reqs |-> <<>>, kind |-> "returned", exc |-> "", value |-> aout.value,
                 log |-> {} ]
        ELSE IF answer.kind = "text"
          THEN [ reqs |-> <<prompt>>, kind |-> "returned", exc |-> "",
                 value |-> Strip(answer.text),
                 log |-> { [what |-> "ic", v |-> answer.text] } ]
          ELSE [ reqs |-> <<prompt>>, kind |-> "returned", exc |-> "", value |-> ErrorText,
                 log |-> { [what |-> "print", v |-> <<"An error occurred">>] } ]

\* analyze_commit_with_ai: build the prompt, one generate_content call inside
\* try; its stripped text is returned, and any exception becomes ErrorText
analyze_commit_with_ai(commit_messages, run) ==
    LET prompt == BuildPrompt(commit_messages)
        answer == run[1]
    IN  IF answer.kind = "text"
          THEN [ reqs |-> <<prompt>>, kind |-> "returned", exc |-> "",
                 value |-> Strip(answer.text),
                 log |-> { [what |-> "ic", v |-> answer.text] } ]
          ELSE [ reqs |-> <<prompt>>, kind |-> "returned", exc |-> "", value |-> ErrorText,
                 log |-> { [what |-> "print", v |-> <<"An error occurred">>] } ]

Analyze ==
    \E batch \in Batches, run \in ServiceRuns :
        LET r == analyze_commit_with_ai(batch, run)
        IN  /\ ain' = [ op |-> "analyze", batch |-> batch, run |-> run ]
            /\ areqs' = r.reqs
            /\ aout' = [ op |-> "analyze", kind |-> r.kind, exc |-> r.exc, value |-> r.value ]
            /\ alog' = r.log
            /\ atally' = [ surplus |-> atally.surplus + Len(r.reqs) - 1,
                           repeat |-> (ain.op = "analyze" /\ ain.batch = batch) ]
            /\ UNCHANGED <<hvars, gvars>>

-----------------------------------------------------------------------------
(* github/gui.py: the classes behind the window *)

\* The import at the top of gui.py asks github.handler for GithubCommit, which
\* handler.py does not define, and names the analyzer module github.ai_anaylzer:
\* it ends in ImportError and the window runs on the "fallback" classes defined
\* in its place.  "handlers" is the window on the classes it was written for:
\* test_github_connection, _set_owner_name, get_user_repositories and
\* get_repo_commits as the design describes them, and the analyzer of
\* ai_analyzer.py.
Bindings == {"fallback", "handlers"}

\* what the user can have in the token field
TokenTexts == { <<>>, <<"a">>, <<" ", "b", " ">>, <<" ">> }

\* bool(x) of a string or None
Truthy(x) == x # PyNone /\ Len(x.v) > 0

\* the fallback's data, names and messages shortened to their first letters:
\* ["mock-repo-1", "another-repo", "project-x"]
MockRepos == << <<"m">>, <<"a">>, <<"p">> >>

\* ["2023-10-27T10:00:00Z/feat: ...", "2023-10-27T09:30:00Z/fix: ...", "2023-10-26T15:20:00Z/docs: ..."]
MockCommits == << <<"3", "/", "f">>, <<"2", "/", "x">>, <<"1", "/", "d">> >>

MockAnalysis == << "**Overall Analysis:** [...]" >>

\* the words run_ai_analysis looks for, kept whole
NCF == "No commits found"


NoCommitsItem == << NCF, " for this repository." >>

SelectPrompt == << "Select a repository..." >>

ConnectFirstItem == << "Connect to GitHub first..." >>

NoReposItem == << "No repositories found." >>

(* The fallback classes of gui.py.  A call's outcome is a value or an       *)
(* exception; the fallback has one outcome for each call and sends nothing. *)

\* test_github_connection(self, token): return True
Fallback_test_github_connection(token) == { "true" }

\* _set_owner_name(self, token): return "mock_user"
Fallback_set_owner_name(token) == { [kind |-> "val", v |-> Str(<<"mock_user">>)] }

\* get_user_repositories(self, token, owner)
Fallback_get_user_repositories == { [kind |-> "val", v |-> MockRepos] }

\* get_repo_commits(self, token, owner, repo)
Fallback_get_repo_commits(name) == { [kind |-> "val", v |-> MockCommits] }

\* analyze_commit_with_ai(commit_messages) of the except branch of the import
Fallback_analyze_commit_with_ai(commit_items) ==
    { [kind |-> "returned", value |-> MockAnalysis, calls |-> 0] }

(* The classes the window was written for, as the design describes them.    *)

\* validate(credential): one profile lookup; true only on a success response,
\* false on any other response, an exception when the network fails
AuthSession_validate(token) ==
    { IF ApiAccepts(token) THEN "true" ELSE "false", "raise" }

\* resolveAccount(credential): the login of the account, or a failure; the
\* window tests the value for truth, so a failure may also come as None
AuthSession_resolveAccount(token) ==
    { [kind |-> "val", v |-> Str(LoginOf(token))], [kind |-> "val", v |-> PyNone],
      [kind |-> "raise", v |-> PyNone] }

\* RepositoryCatalog.list: the names of the account's repositories, none, or
\* a failure
RepositoryCatalog_list ==
    { [kind |-> "val", v |-> << <<"b">>, <<"A">> >>], [kind |-> "val", v |-> <<>>],
      [kind |-> "raise", v |-> <<>>] }

\* the commits of a repository, newest first; the newest commit of repository
\* "b" has the words "No commits found" in its message
RemoteCommits(name) ==
    << <<"2", "/">> \o name \o (IF name = <<"b">> THEN << " ", NCF >> ELSE <<>>),
       <<"1", "/">> \o name >>

\* CommitHistoryFetcher.list: the commits of the repository, none, or a failure
CommitHistoryFetcher_list(name) ==
    { [kind |-> "val", v |-> RemoteCommits(name)], [kind |-> "val", v |-> <<>>],
      [kind |-> "raise", v |-> <<>>] }

(* What the window's calls can give, by what the import bound               *)

\* self.github_profile.test_github_connection(token): "true", "false", "raise"
ConnOutcomes(b, token) ==
    IF b = "fallback" THEN Fallback_test_github_connection(token)
    ELSE AuthSession_validate(token)

\* the profile lookups that call sends
ConnLookups(b) == IF b = "fallback" THEN 0 ELSE 1

\* self.github_profile._set_owner_name(token)
OwnerOutcomes(b, token) ==
    IF b = "fallback" THEN Fallback_set_owner_name(token)
    ELSE AuthSession_resolveAccount(token)

\* self.github_repo.get_user_repositories(self.token, self.owner)
ReposOutcomes(b) ==
    IF b = "fallback" THEN Fallback_get_user_repositories ELSE RepositoryCatalog_list

\* self.github_commit.get_repo_commits(self.token, self.owner, repo_name_only)
CommitsOutcomes(b, name) ==
    IF b = "fallback" THEN Fallback_get_repo_commits(name)
    ELSE CommitHistoryFetcher_list(name)

\* analyze_commit_with_ai(commit_items): the fallback's, or the analyzer of
\* ai_analyzer.py against some answers of the service
AnalysisOutcomes(b, commit_items) ==
    IF b = "fallback" THEN Fallback_analyze_commit_with_ai(commit_items)
    ELSE { [kind |-> r.kind, value |-> r.value, calls |-> Len(r.reqs)] :
           r \in { analyze_commit_with_ai(commit_items, run) : run \in ServiceRuns } }

-----------------------------------------------------------------------------
(* github/gui.py: sorted(repos, key=str.lower) *)

Ord(c) ==
    CASE c = "/" -> 47 [] c = "A" -> 65 [] c = "a" -> 97 [] c = "b" -> 98
      [] c = "m" -> 109 [] c = "p" -> 112 [] OTHER -> 122

LowerChar(c) == IF c = "A" THEN "a" ELSE c

\* str.lower
Lower(x) == [ i \in 1..Len(x) |-> LowerChar(x[i]) ]

\* x < y for strings
RECURSIVE StrLess(_, _)
StrLess(x, y) ==
    IF Len(y) = 0 THEN FALSE
    ELSE IF Len(x) = 0 THEN TRUE
    ELSE IF Head(x) = Head(y) THEN StrLess(Tail(x), Tail(y))
    ELSE Ord(Head(x)) < Ord(Head(y))

\* x goes behind every element whose key is not greater: the sort is stable
RECURSIVE InsertByLower(_, _)
InsertByLower(sorted, x) ==
    IF Len(sorted) = 0 THEN << x >>
    ELSE IF StrLess(Lower(x), Lower(Head(sorted))) THEN << x >> \o sorted
    ELSE << Head(sorted) >> \o InsertByLower(Tail(sorted), x)

RECURSIVE SortedByLower(_)
SortedByLower(names) ==
    IF Len(names) = 0 THEN <<>>
    ELSE InsertByLower(SortedByLower(SubSeq(names, 1, Len(names) - 1)), names[Len(names)])

-----------------------------------------------------------------------------
(* github/gui.py: GitAnalyzerGUI *)

\* __init__ and init_ui
InitWindow ==
    [ token |-> PyNone,
      owner |-> PyNone,
      token_input |-> [text |-> <<>>, enabled |-> TRUE],
      connect_btn |-> [enabled |-> FALSE, text |-> "Connect"],
      connection_status |-> [text |-> "Not Connected", name |-> "statusError"],
      repo_group |-> FALSE,
      repo_combo |-> [items |-> << ConnectFirstItem >>, index |-> 0],
      commit_group |-> FALSE,
      load_commits_btn |-> [enabled |-> TRUE, text |-> "Load Commits"],
      commit_list_widget |-> <<>>,
      analysis_group |-> FALSE,
      analyze_commits_btn |-> [enabled |-> TRUE, text |-> "Analyze All Commits"],
      analysis_results_text |-> <<>>,
      status_bar |-> "Ready",
      msgbox |-> "none" ]

\* a widget takes input when it and the group box it sits in are enabled
CanEditToken(w) == w.token_input.enabled

CanClickConnect(w) == w.connect_btn.enabled

CanSelectRepo(w) == w.repo_group

CanClickLoad(w) == w.commit_group /\ w.load_commits_btn.enabled

CanClickAnalyze(w) == w.analysis_group /\ w.analyze_commits_btn.enabled

on_token_change(w, text) == [w EXCEPT !.connect_btn.enabled = (Len(Strip(text)) > 0)]

update_connection_status(w, message, is_success) ==
    [w EXCEPT !.connection_status =
        [text |-> message, name |-> IF is_success THEN "statusSuccess" ELSE "statusError"]]

on_repo_selected(w, index) ==
    [w EXCEPT !.commit_group = (index > 0),
              !.analysis_group = FALSE,
              !.commit_list_widget = <<>>,
              !.analysis_results_text = <<>>]

\* repo_combo.clear(): a combo that had a current item reports index -1
ComboClear(w) ==
    LET w1 == [w EXCEPT !.repo_combo = [items |-> <<>>, index |-> -1]]
    IN  IF w.repo_combo.index # -1 THEN on_repo_selected(w1, -1) ELSE w1

\* repo_combo.addItem / addItems: the first item of an empty combo becomes
\* current and the combo reports index 0
ComboAddItems(w, new) ==
    LET was_empty == Len(w.repo_combo.items) = 0
        w1 == [w EXCEPT !.repo_combo.items = @ \o new,
                        !.repo_combo.index = IF was_empty /\ Len(new) > 0 THEN 0 ELSE @]
    IN  IF was_empty /\ Len(new) > 0 THEN on_repo_selected(w1, 0) ELSE w1

\* repo_combo.currentText()
CurrentText(w) ==
    IF w.repo_combo.index >= 0 THEN w.repo_combo.items[w.repo_combo.index + 1] ELSE <<>>

load_repositories(w, repos) ==
    IF repos.kind = "raise"
      THEN [w EXCEPT !.msgbox = "warning: Could not load repositories"]
    ELSE IF Len(repos.v) > 0
      THEN [ ComboAddItems(ComboAddItems(ComboClear(w), << SelectPrompt >>),
                           SortedByLower(repos.v))
               EXCEPT !.status_bar = "Loaded repositories." ]
      ELSE [ ComboAddItems(ComboClear(w), << NoReposItem >>)
               EXCEPT !.status_bar = "No repositories found for this account." ]

\* the except branch of connect_to_github
connect_failed(w) ==
    [ update_connection_status(w, "Error", FALSE)
        EXCEPT !.status_bar = "An error occurred during connection.",
               !.msgbox = "critical: Error",
               !.connect_btn = [enabled |-> TRUE, text |-> "Connect"] ]

ConnectSucceeds(conn, own) == conn = "true" /\ own.kind = "val" /\ Truthy(own.v)

\* connect_to_github up to processEvents(); the caller has checked that the
\* token is not empty
connect_begin(w) ==
    [w EXCEPT !.connect_btn = [enabled |-> FALSE, text |-> "Connecting..."],
              !.status_bar = "Attempting to connect to GitHub API..."]

\* connect_to_github after processEvents(): token is the local read before it
connect_finish(w, token, conn, own, repos) ==
    IF conn # "true" THEN connect_failed(w)
    ELSE IF own.kind = "raise" THEN connect_failed(w)
    ELSE IF ~Truthy(own.v) THEN connect_failed([w EXCEPT !.owner = own.v])
    ELSE load_repositories(
           [ update_connection_status(w, "Connected", TRUE)
               EXCEPT !.owner = own.v,
                      !.token = Str(token),
                      !.status_bar = "Connected. Loading repositories...",
                      !.repo_group = TRUE,
                      !.token_input.enabled = FALSE,
                      !.connect_btn.text = "Connected" ],
           repos)

\* load_commits up to processEvents()
load_commits_begin(w) ==
    [w EXCEPT !.load_commits_btn = [enabled |-> FALSE, text |-> "Loading..."],
              !.status_bar = "Fetching commits..."]

\* load_commits with a slip: the commits are listed oldest first
load_commits_finish_reversed(w, commits) ==
    LET shown == [ i \in 1..Len(commits.v) |-> commits.v[Len(commits.v) - i + 1] ]
        w1 == IF commits.kind = "raise"
                THEN [w EXCEPT !.status_bar = "Failed to load commits.",
                               !.msgbox = "warning: Could not load commits"]
              ELSE IF Len(commits.v) > 0
                THEN [w EXCEPT !.commit_list_widget = shown,
                               !.status_bar = "Loaded commits.",
                               !.analysis_group = TRUE]
                ELSE [w EXCEPT !.commit_list_widget = << NoCommitsItem >>,
                               !.status_bar = "No commits found.",
                               !.analysis_group = FALSE]
    IN  [w1 EXCEPT !.load_commits_btn = [enabled |-> TRUE, text |-> "Load Commits"]]

\* load_commits with a slip: the button is restored at the end of the try
\* instead of in a finally, so not when the call raised
load_commits_finish_no_finally(w, commits) ==
    IF commits.kind = "raise"
      THEN [w EXCEPT !.status_bar = "Failed to load commits.",
                     !.msgbox = "warning: Could not load commits"]
    ELSE IF Len(commits.v) > 0
      THEN [w EXCEPT !.commit_list_widget = commits.v,
                     !.status_bar = "Loaded commits.",
                     !.analysis_group = TRUE,
                     !.load_commits_btn = [enabled |-> TRUE, text |-> "Load Commits"]]
      ELSE [w EXCEPT !.commit_list_widget = << NoCommitsItem >>,
                     !.status_bar = "No commits found.",
                     !.analysis_group = FALSE,
                     !.load_commits_btn = [enabled |-> TRUE, text |-> "Load Commits"]]

\* load_commits after processEvents(): the try, its except and its finally
load_commits_finish(w, commits) ==
    LET w1 == IF commits.kind = "raise"
                THEN [w EXCEPT !.status_bar = "Failed to load commits.",
                               !.msgbox = "warning: Could not load commits"]
              ELSE IF Len(commits.v) > 0
                THEN [w EXCEPT !.commit_list_widget = commits.v,
                               !.status_bar = "Loaded commits.",
                               !.analysis_group = TRUE]
                ELSE [w EXCEPT !.commit_list_widget = << NoCommitsItem >>,
                               !.status_bar = "No commits found.",
                               !.analysis_group = FALSE]
    IN  [w1 EXCEPT !.load_commits_btn = [enabled |-> TRUE, text |-> "Load Commits"]]

\* "No commits found" in s
ContainsNCF(x) == \E i \in 1..Len(x) : x[i] = NCF

\* the early return of run_ai_analysis
NothingToAnalyze(commit_items) == Len(commit_items) = 0 \/ ContainsNCF(commit_items[1])

\* run_ai_analysis up to processEvents()
run_ai_analysis_begin(w) ==
    [w EXCEPT !.analyze_commits_btn = [enabled |-> FALSE, text |-> "Analyzing..."],
              !.status_bar = "Sending commits to AI for analysis..."]

\* run_ai_analysis after processEvents(): the try, its except and its finally
run_ai_analysis_finish(w, res) ==
    LET w1 == IF res.kind = "raised"
                THEN [w EXCEPT !.status_bar = "An error occurred during AI analysis.",
                               !.msgbox = "critical: AI Error"]
                ELSE [w EXCEPT !.analysis_results_text = res.value,
                               !.status_bar = "AI analysis complete."]
    IN  [w1 EXCEPT !.analyze_commits_btn = [enabled |-> TRUE, text |-> "Analyze All Commits"]]

(* The window's events.  A handler that calls processEvents() is two steps:  *)
(* up to the call, where it goes on the stack, and from the call's return,   *)
(* which only the innermost waiting handler can take.                        *)

Top == stack[Len(stack)]

Pop == SubSeq(stack, 1, Len(stack) - 1)

\* the user changes the text of the token field
TokenEdited ==
    \E text \in TokenTexts :
        /\ CanEditToken(win)
        /\ text # win.token_input.text
        /\ win' = on_token_change([win EXCEPT !.token_input.text = text], text)
        /\ ev' = "token_edited"
        /\ UNCHANGED <<stack, gcalls>>
        /\ UNCHANGED <<hvars, avars, binding>>

\* a click on Connect with nothing but blanks in the field
ConnectIgnored ==
    /\ CanClickConnect(win)
    /\ Len(Strip(win.token_input.text)) = 0
    /\ ev' = "connect_ignored"
    /\ UNCHANGED <<win, stack, gcalls>>
    /\ UNCHANGED <<hvars, avars, binding>>

ConnectClicked ==
    /\ CanClickConnect(win)
    /\ Len(Strip(win.token_input.text)) > 0
    /\ Len(stack) < MaxDepth
    /\ win' = connect_begin(win)
    /\ stack' = Append(stack, [h |-> "connect", token |-> Strip(win.token_input.text)])
    /\ ev' = "connect_begin"
    /\ UNCHANGED gcalls
    /\ UNCHANGED <<hvars, avars, binding>>

ConnectResumed ==
    /\ Len(stack) > 0
    /\ Top.h = "connect"
    /\ stack' = Pop
    /\ \E conn \in ConnOutcomes(binding, Top.token) :
       \E own \in OwnerOutcomes(binding, Top.token) :
       \E repos \in ReposOutcomes(binding) :
          /\ win' = connect_finish(win, Top.token, conn, own, repos)
          /\ ev' = IF ConnectSucceeds(conn, own) THEN "connect_ok" ELSE "connect_failed"
          /\ gcalls' = [gcalls EXCEPT !.lookups = ConnLookups(binding)]
    /\ UNCHANGED <<hvars, avars, binding>>

\* the user picks another entry of the combo
RepoSelected ==
    \E index \in 0..(Len(win.repo_combo.items) - 1) :
        /\ CanSelectRepo(win)
        /\ index # win.repo_combo.index
        /\ win' = on_repo_selected([win EXCEPT !.repo_combo.index = index], index)
        /\ ev' = "repo_selected"
        /\ UNCHANGED <<stack, gcalls>>
        /\ UNCHANGED <<hvars, avars, binding>>

\* load_commits returns at once when the combo shows no repository name
LoadReturnsEarly(w) == Len(CurrentText(w)) = 0 \/ CurrentText(w) = SelectPrompt

LoadClicked ==
    /\ CanClickLoad(win)
    /\ Len(stack) < MaxDepth
    /\ win' = IF LoadReturnsEarly(win) THEN win ELSE load_commits_begin(win)
    /\ stack' = IF LoadReturnsEarly(win) THEN stack
                ELSE Append(stack, [h |-> "load", selected_repo |-> CurrentText(win)])
    /\ ev' = IF LoadReturnsEarly(win) THEN "load_ignored" ELSE "load_begin"
    /\ UNCHANGED gcalls
    /\ UNCHANGED <<hvars, avars, binding>>

LoadResumed ==
    /\ Len(stack) > 0
    /\ Top.h = "load"
    /\ stack' = Pop
    /\ \E commits \in CommitsOutcomes(binding, SplitLast(Top.selected_repo, "/")) :
          /\ win' = load_commits_finish(win, commits)
          /\ ev' = IF commits.kind = "raise" THEN "load_failed" ELSE "load_done"
          /\ gcalls' = IF commits.kind = "raise" THEN gcalls
                       ELSE [gcalls EXCEPT !.fetched = commits.v,
                                           !.listed_for = Top.selected_repo]
    /\ UNCHANGED <<hvars, avars, binding>>

AnalyzeIgnored ==
    /\ CanClickAnalyze(win)
    /\ NothingToAnalyze(win.commit_list_widget)
    /\ win' = [win EXCEPT !.msgbox = "information: No Commits"]
    /\ ev' = "analyze_ignored"
    /\ UNCHANGED <<stack, gcalls>>
    /\ UNCHANGED <<hvars, avars, binding>>

AnalyzeClicked ==
    /\ CanClickAnalyze(win)
    /\ ~NothingToAnalyze(win.commit_list_widget)
    /\ Len(stack) < MaxDepth
    /\ win' = run_ai_analysis_begin(win)
    /\ stack' = Append(stack, [h |-> "analyze", commit_items |-> win.commit_list_widget])
    /\ ev' = "analyze_begin"
    /\ UNCHANGED gcalls
    /\ UNCHANGED <<hvars, avars, binding>>

AnalyzeResumed ==
    /\ Len(stack) > 0
    /\ Top.h = "analyze"
    /\ stack' = Pop
    /\ \E res \in AnalysisOutcomes(binding, Top.commit_items) :
          /\ win' = run_ai_analysis_finish(win, res)
          /\ ev' = "analyze_done"
          /\ gcalls' = [gcalls EXCEPT !.service = res.calls, !.batch = Top.commit_items]
    /\ UNCHANGED <<hvars, avars, binding>>

-----------------------------------------------------------------------------
(* Specifications *)

Init ==
    /\ accessToken \in Credentials
    /\ repo = PyNone
    /\ hin = [op |-> "none"]
    /\ hreqs = <<>>
    /\ hout = [op |-> "none", kind |-> "none", exc |-> "", value |-> PyNone, repo_list |-> <<>>]
    /\ hlog = {}
    /\ ain = [op |-> "none", batch |-> <<>>, run |-> <<>>]
    /\ areqs = <<>>
    /\ aout = [op |-> "none", kind |-> "none", exc |-> "", value |-> <<>>]
    /\ alog = {}
    /\ atally = [surplus |-> 0, repeat |-> FALSE]
    /\ binding \in Bindings
    /\ win = InitWindow
    /\ stack = <<>>
    /\ ev = "init"
    /\ gcalls = [lookups |-> 0, service |-> 0, batch |-> <<>>, fetched |-> <<>>,
                 listed_for |-> <<>>]

NextHandler == ProfileCreate \/ RepoCreate \/ RepoNew \/ RepoSetParams \/ RepoFetch

SpecHandler == Init /\ [][NextHandler]_vars

NextAnalyzer == Analyze

SpecAnalyzer == Init /\ [][NextAnalyzer]_vars

NextGui ==
    \/ TokenEdited \/ ConnectIgnored \/ ConnectClicked \/ ConnectResumed
    \/ RepoSelected
    \/ LoadClicked \/ LoadResumed
    \/ AnalyzeIgnored \/ AnalyzeClicked \/ AnalyzeResumed

SpecGui == Init /\ [][NextGui]_vars

\* the handler of kind h that waits innermost in processEvents() goes on.  A
\* step of the window that takes it off the stack is a step of ConnectResumed,
\* LoadResumed or AnalyzeResumed, whichever h names, and such a step is possible
\* whenever a handler of kind h is innermost.
Resumed(h) == Len(stack) > 0 /\ Top.h = h /\ stack' = Pop

\* processEvents() handles the events that are waiting and returns, and the
\* call a handler then makes comes back: a handler that is innermost again and
\* again is not passed over for ever
FairGui ==
    /\ SF_stack(Resumed("connect"))
    /\ SF_stack(Resumed("load"))
    /\ SF_stack(Resumed("analyze"))

SpecGuiFair == Init /\ [][NextGui]_vars /\ FairGui

-----------------------------------------------------------------------------
(* The failures the design documents; a call that fails raises one of them *)

Taxonomy ==
    { "ValidationError", "AuthError", "TransportError", "UpstreamFormatError",
      "AIServiceError", "NoCommitsError" }

-----------------------------------------------------------------------------
(* Properties of the handlers *)

ListingDone == hout.op = "repos"

ProfileDone == hout.op = "profile"

\* C1: a listing call whose page size is above 30 fails with ValidationError
\* and sends no request.
C1_PerPageValidated ==
    (ListingDone /\ hin.per_page > DefaultPerPage) =>
        (hout.kind = "raised" /\ hout.exc = "ValidationError" /\ Len(hreqs) = 0)

\* the pages a call asked for, in order
PagesRequested == [ i \in 1..Len(hreqs) |-> hreqs[i].params.page ]

\* C2: against a remote listing whose pages 1..k are full and whose page k+1
\* is short, a listing call asks for pages 1..k+1 in that order, once each,
\* and its result is all of them in that order; an empty listing costs one
\* request and gives an empty result.
C2_PaginationComplete ==
    (ListingDone /\ hin.remote.failPage = 0 /\ hin.page = 1) =>
        LET k == hin.remote.n \div hin.per_page
            listing == RemoteRepos(hin.remote.n, hin.remote.shape)
        IN  /\ PagesRequested = [ i \in 1..(k + 1) |-> i ]
            /\ hout.kind = "returned"
            /\ hout.repo_list = [ i \in 1..Len(listing) |-> [name |-> RepoGetName(listing[i])] ]

NonSuccess ==
    \/ ListingDone /\ StatusAt(hin.remote, hin.page) # 200
    \/ ProfileDone /\ hin.resp.kind = "http" /\ hin.resp.status # 200

\* C6: a non-success response of the hosting API never leaves a call as an
\* exception outside the taxonomy; a listing call ends there with an empty
\* result.
C6_NonSuccessContained ==
    NonSuccess =>
        /\ hout.kind = "raised" => hout.exc \in Taxonomy
        /\ ListingDone => (hout.kind = "returned" /\ hout.repo_list = <<>>)

\* C9: a profile lookup that succeeds with a body without a login fails with
\* AuthError; no profile without a login is handed out.
C9_MissingLoginRejected ==
    (ProfileDone /\ hin.resp.kind = "http" /\ hin.resp.status = 200
        /\ "login" \notin DOMAIN hin.resp.body) =>
        (hout.kind = "raised" /\ hout.exc = "AuthError")

\* what a log entry shows of a credential: ic(token) writes the value itself
LogShows(e, cred) == e.what = "token" /\ e.v = cred

\* C11: no call of a handler writes a credential to its diagnostic output.
C11_CredentialNeverLogged ==
    \A e \in hlog : \A cred \in Credentials : ~LogShows(e, cred)

\* C12: every request of a profile or listing call bears the credential the
\* caller passed to it.
C12_BearerIsPassedCredential ==
    (ProfileDone \/ ListingDone) =>
        \A i \in 1..Len(hreqs) : hreqs[i].auth = hin.token

\* the name a raw record should be listed under: its raw name in lower case
LowerName(raw) == [t |-> "name", v |-> [raw.name EXCEPT !.upper = FALSE]]

\* C15: a listing gives lower-cased names, leaves out the records without a
\* name, and gives no name twice.
C15_NamesNormalised ==
    (ListingDone /\ hout.kind = "returned") =>
        LET data == PageOf(RemoteRepos(hin.remote.n, hin.remote.shape), hin.page, hin.per_page)
            out == hout.repo_list
        IN  /\ \A i \in 1..Len(out) :
                 /\ out[i].name # PyNone
                 /\ \E j \in 1..Len(data) : data[j].has_name /\ out[i].name = LowerName(data[j])
            /\ \A i, j \in 1..Len(out) : out[i].name = out[j].name => i = j

-----------------------------------------------------------------------------
(* Properties of the analyzer *)

AnalyzeDone == aout.op = "analyze"

\* C3: analysis of an empty batch fails with NoCommitsError and calls the
\* completion service not once.
C3_EmptyBatchRejected ==
    (AnalyzeDone /\ Len(ain.batch) = 0) =>
        (aout.kind = "raised" /\ aout.exc = "NoCommitsError" /\ Len(areqs) = 0)

Retryable(answer) == answer.kind = "error" /\ answer.status \in {429, 500}

\* C4: after a quota or server error on the first attempt the analyzer tries
\* exactly once more; the second answer decides between a report and
\* AIServiceError; no call sends more than two requests.
C4_SingleRetry ==
    AnalyzeDone =>
        /\ Len(areqs) <= 2
        /\ Retryable(ain.run[1]) =>
            /\ Len(areqs) = 2
            /\ ain.run[2].kind = "text" =>
                 (aout.kind = "returned" /\ aout.value = Strip(ain.run[2].text))
            /\ ain.run[2].kind = "error" =>
                 (aout.kind = "raised" /\ aout.exc = "AIServiceError")

\* C5: a failed dispatch ends the call with a typed error, never with a value
\* returned the way a report is returned.
C5_FailureIsTyped ==
    (AnalyzeDone /\ ain.run[1].kind = "error") =>
        (aout.kind = "raised" /\ aout.exc \in Taxonomy)

\* s.split("\n")
RECURSIVE Lines(_)
Lines(s) ==
    LET at == { i \in 1..Len(s) : s[i] = "\n" }
    IN  IF at = {} THEN << s >>
        ELSE Append(Lines(SubSeq(s, 1, SetMax(at) - 1)), SubSeq(s, SetMax(at) + 1, Len(s)))

IsBullet(line) == Len(line) >= 2 /\ line[1] = "-" /\ line[2] = " "

\* the text between the template's two parts
PromptBody(prompt) == SubSeq(prompt, Len(PromptHead) + 1, Len(prompt) - Len(PromptTail))

\* C7: the prompt body of a non-empty batch holds exactly one bulleted line
\* per record, in input order: the record's message after its last "/",
\* trimmed.
C7_OneBulletPerRecord ==
    (AnalyzeDone /\ Len(ain.batch) > 0) =>
        SelectSeq(Lines(PromptBody(areqs[1])), IsBullet)
          = [ i \in 1..Len(ain.batch) |-> <<"-", " ">> \o Strip(SplitLast(ain.batch[i], "/")) ]

-----------------------------------------------------------------------------
(* Properties of the window *)

Connected == win.connection_status.name = "statusSuccess"

\* C8: validation sends exactly one profile lookup and answers true only when
\* the hosting API answered it with success: a connect that ends connected
\* has sent that lookup and holds a credential the hosting API accepts.
C8_ValidationFailsClosed ==
    ev = "connect_ok" => (gcalls.lookups = 1 /\ Connected /\ ApiAccepts(win.token.v))

CommitsOnShow == Len(win.commit_list_widget) > 0 /\ win.commit_list_widget # << NoCommitsItem >>

\* C13: a result that belongs to a repository or a list no longer current is
\* dropped: when a load ends and shows commits they are those of the
\* repository the combo shows, and when an analysis ends its batch is the list
\* on show.
C13_LastRequestWins ==
    /\ (ev = "load_done" /\ CommitsOnShow) => gcalls.listed_for = CurrentText(win)
    /\ ev = "analyze_done" => gcalls.batch = win.commit_list_widget

\* C14: once a connect has stored a credential, neither it nor the account
\* stored with it is assigned another value.
C14_CredentialImmutable ==
    [][ win.token # PyNone => (win'.token = win.token /\ win'.owner = win.owner) ]_vars

\* the bulleted line of one commit record
BulletOf(msg) == <<"-", " ">> \o Strip(SplitLast(msg, "/"))

\* C18: commits keep the order the remote gave them: the list shown after a
\* load is the list fetched, the batch an analysis takes is the list fetched,
\* and the lines of the prompt body follow the batch.
C18_CommitOrderKept ==
    /\ (ev = "load_done" /\ Len(gcalls.fetched) > 0) => win.commit_list_widget = gcalls.fetched
    /\ ev = "analyze_begin" => Top.commit_items = gcalls.fetched
    /\ ev = "analyze_done" =>
         Lines(formatted_commits(gcalls.batch))
           = [ i \in 1..Len(gcalls.batch) |-> BulletOf(gcalls.batch[i]) ]

\* an analysis has ended whose batch was the several commits of the last load
C18_FetchedBatchAnalysed ==
    ev = "analyze_done" /\ Len(gcalls.batch) >= 2 /\ gcalls.batch = gcalls.fetched

\* C19: the stages are gated: the repository stage needs a stored credential,
\* the commit stage a repository chosen in the combo, the analysis stage a
\* list of commits fetched for the repository chosen.
C19_StageGating ==
    /\ win.repo_group => win.token # PyNone
    /\ win.commit_group => win.repo_combo.index > 0
    /\ win.analysis_group =>
         /\ CommitsOnShow
         /\ win.repo_combo.index > 0
         /\ gcalls.listed_for = CurrentText(win)

\* C20: a Load Commits or Analyze button that was disabled is enabled again,
\* under its own label, whatever the call behind it did.
C20_ButtonsRestored ==
    /\ (~win.load_commits_btn.enabled)
         ~> (win.load_commits_btn = [enabled |-> TRUE, text |-> "Load Commits"])
    /\ (~win.analyze_commits_btn.enabled)
         ~> (win.analyze_commits_btn = [enabled |-> TRUE, text |-> "Analyze All Commits"])

\* a load whose call raised has ended and its button is back
C20_RestoredAfterFailure ==
    ev = "load_failed" /\ win.load_commits_btn = [enabled |-> TRUE, text |-> "Load Commits"]

====
